---------------------------- MODULE Spec2Model ----------------------------
(***************************************************************************)
(* Balance API (app/src): the Express middleware chain of app.ts, the      *)
(* balance controller, the error-translating middleware and the response   *)
(* envelope builder.                                                       *)
(*                                                                         *)
(* A request walks the chain in registration order:                        *)
(*   express.json()  ->  "/balance" router  ->  GET /health                *)
(*                   ->  not-found middleware  ->  errorHandler            *)
(* A middleware that raises a failure hands the request to the next        *)
(* error-handling middleware, which is errorHandler.                       *)
(***************************************************************************)
EXTENDS Integers, Sequences, FiniteSets, TLC

VARIABLES
    reqs,   \* request id -> the request, its position in the chain, its responses
    rb,     \* one application of ResponseBuilder: its inputs and what it returned
    server, \* the process of server.ts: its environment and its listener
    sh      \* one run of a script of scripts/: its frames, what it did, its exit

vars == <<reqs, rb, server, sh>>

(***************************************************************************)
(* Bounds                                                                  *)
(***************************************************************************)
\* number of requests the listener receives (they may be in flight together)
MaxReq == 2

\* length of the longest text the PORT environment variable holds
MaxPortLen == 5

\* number of times scripts are run against the same cluster
MaxRuns == 2

Reqs == 1..MaxReq

(***************************************************************************)
(* JavaScript values.  Every scalar is a record of one shape, so that any  *)
(* two values can be compared; t is the result of typeof.                  *)
(***************************************************************************)
Undefined == [t |-> "undefined", n |-> 0, s |-> ""]
Num(n)    == [t |-> "number",    n |-> n, s |-> ""]
Str(s)    == [t |-> "string",    n |-> 0, s |-> s]
Bool(b)   == [t |-> "boolean",   n |-> IF b THEN 1 ELSE 0, s |-> ""]
Obj(s)    == [t |-> "object",    n |-> 0, s |-> s]
Fn        == [t |-> "function",  n |-> 0, s |-> ""]

\* ToBoolean: undefined, 0, "" and false are falsy; objects are truthy
Truthy(v) ==
    CASE v.t = "undefined" -> FALSE
      [] v.t = "number"    -> v.n # 0
      [] v.t = "string"    -> v.s # ""
      [] v.t = "boolean"   -> v.n = 1
      [] OTHER             -> TRUE

\* a || b
Or(a, b) == IF Truthy(a) THEN a ELSE b

\* JSON.stringify of an object drops the properties whose value is undefined
\* or a function
ToJson(obj) ==
    [k \in {f \in DOMAIN obj : obj[f] \notin {Undefined, Fn}} |-> obj[k]]

(***************************************************************************)
(* utils/responseBuilder                                                   *)
(***************************************************************************)
\* the success envelope also carries an error field
ResponseBuilder_success_withError(data) ==
    [success |-> Bool(TRUE), data |-> data, error |-> Str("")]

ResponseBuilder_success(data) == [success |-> Bool(TRUE), data |-> data]

\* the failure envelope lacks its flag
ResponseBuilder_error_bare(message) == [error |-> message]

ResponseBuilder_error(message) == [success |-> Bool(FALSE), error |-> message]

(***************************************************************************)
(* services/balance.service and errors/NotFoundError                       *)
(***************************************************************************)
\* the constant payload; the balance 123.45 is held in hundredths
getBalanceValue == [balance |-> Num(12345), currency |-> Str("USD")]

NotFoundError(message) ==
    [status |-> Num(404), message |-> Str(message),
     stack |-> Str("NotFoundError: at app.ts:17")]

(***************************************************************************)
(* Responses                                                               *)
(***************************************************************************)
\* a status the HTTP layer accepts when the head is written
ValidStatusCode(status) ==
    status.t = "number" /\ status.n >= 100 /\ status.n <= 999

\* a response as the client receives it
Response(code, type, body) == [status |-> code, type |-> type, body |-> body]

\* a call that threw instead of returning
Thrown(e) == [thrown |-> e]

IsThrown(x) == "thrown" \in DOMAIN x

\* the failure the HTTP layer throws for a status it rejects
InvalidStatusCode ==
    [status |-> Undefined, message |-> Str("Invalid status code"),
     stack |-> Str("RangeError: at error.middleware.ts:13")]

\* res.status(status).json(body): the body leaves as JSON under the status; a
\* status the HTTP layer rejects makes the call throw
res_status_json(status, body) ==
    IF ValidStatusCode(status)
    THEN Response(status.n, "application/json", ToJson(body))
    ELSE Thrown(InvalidStatusCode)

\* the framework's last-resort handler answers a failure that no middleware
\* answered: 500 and an HTML page
FinalHandler(err) ==
    Response(500, "text/html", [html |-> Str("Internal Server Error")])

(***************************************************************************)
(* controllers/balance.controller                                          *)
(***************************************************************************)
\* the payload sent without its envelope
getBalance_unwrapped == res_status_json(Num(200), getBalanceValue)

getBalance ==
    LET result == getBalanceValue
    IN  res_status_json(Num(200), ResponseBuilder_success(result))

\* the defaults are taken together: a failure that lacks either of the two
\* gets both
errorHandler_bothOrNeither(err) ==
    LET whole   == Truthy(err.status) /\ Truthy(err.message)
        status  == IF whole THEN err.status ELSE Num(500)
        message == IF whole THEN err.message ELSE Str("Internal Server Error")
    IN  res_status_json(status, ResponseBuilder_error(message))

(***************************************************************************)
(* middlewares/error.middleware                                            *)
(***************************************************************************)
\* the failure's own status is ignored
errorHandler_always500(err) ==
    LET message == Or(err.message, Str("Internal Server Error"))
    IN  res_status_json(Num(500), ResponseBuilder_error(message))

\* the fallbacks are those of a client error
errorHandler_default400(err) ==
    LET status  == Or(err.status, Num(400))
        message == Or(err.message, Str("Bad Request"))
    IN  res_status_json(status, ResponseBuilder_error(message))

\* the body also carries the failure's stack
errorHandler_withStack(err) ==
    LET status  == Or(err.status, Num(500))
        message == Or(err.message, Str("Internal Server Error"))
    IN  res_status_json(status,
           [success |-> Bool(FALSE), error |-> message, stack |-> err.stack])

errorHandler(err) ==
    LET status  == Or(err.status, Num(500))
        message == Or(err.message, Str("Internal Server Error"))
    IN  res_status_json(status, ResponseBuilder_error(message))

(***************************************************************************)
(* server.ts: the port and the listener                                    *)
(***************************************************************************)
\* the characters of the texts PORT holds: digits and a letter
Chars == {"0", "1", "7", "a"}

\* the environment of the process: PORT unset, or set to a text
Unset == [set |-> FALSE, text |-> <<>>]

Envs ==
    {Unset} \cup
    {[set |-> TRUE, text |-> t] : t \in UNION {[1..k -> Chars] : k \in 0..MaxPortLen}}

DefaultPort == 10000

\* the fallback is another port
PORT_default3000(env) ==
    IF env.set /\ env.text # <<>>
    THEN [kind |-> "string", text |-> env.text, value |-> 0]
    ELSE [kind |-> "number", text |-> <<>>, value |-> 3000]

\* process.env.PORT || 10000: a text that is set and not empty is truthy
PORT(env) ==
    IF env.set /\ env.text # <<>>
    THEN [kind |-> "string", text |-> env.text, value |-> 0]
    ELSE [kind |-> "number", text |-> <<>>, value |-> DefaultPort]

DigitValue(c) ==
    CASE c = "0" -> 0
      [] c = "1" -> 1
      [] c = "7" -> 7
      [] OTHER   -> -1

\* the text is a decimal numeral
IsNumeral(text) ==
    text # <<>> /\ \A i \in 1..Len(text) : DigitValue(text[i]) >= 0

RECURSIVE ToNumber(_)
\* the number a decimal numeral denotes
ToNumber(text) ==
    IF text = <<>>
    THEN 0
    ELSE 10 * ToNumber(SubSeq(text, 1, Len(text) - 1)) + DigitValue(text[Len(text)])

\* the ports the system hands out when port 0 is asked for
EphemeralPorts == {49152, 49153}

NotListening == [pc |-> "start", port |-> -1, pipe |-> <<>>, listeners |-> 0]

\* how app.listen(P) can end: listening on a port or on a named pipe, or the
\* process ended by a port out of range or by a failed bind
ListenOutcomes(P) ==
    LET bound(n)  == [pc |-> "listening", port |-> n, pipe |-> <<>>, listeners |-> 1]
        crashed   == [pc |-> "crashed", port |-> -1, pipe |-> <<>>, listeners |-> 0]
        piped(t)  == [pc |-> "listening", port |-> -1, pipe |-> t, listeners |-> 1]
        n == IF P.kind = "number" THEN P.value ELSE ToNumber(P.text)
    IN  IF P.kind = "string" /\ ~IsNumeral(P.text)
        THEN {piped(P.text), crashed}
        ELSE IF n > 65535
        THEN {crashed}
        ELSE IF n = 0
        THEN {bound(e) : e \in EphemeralPorts}
        ELSE {bound(n), crashed}

\* the process before server.ts ran, under environment env
Process(env) == [env |-> env, at |-> NotListening, log |-> <<>>]

\* app.listen(PORT, ..)
Listen ==
    /\ server.at.pc = "start"
    /\ \E o \in ListenOutcomes(PORT(server.env)) :
          server' = [server EXCEPT !.at = o]
    /\ UNCHANGED <<reqs, rb, sh>>

\* the callback of app.listen: console.log(`.. port ${PORT}`)
LogListening ==
    /\ server.at.pc = "listening"
    /\ server' = [server EXCEPT !.at.pc = "logged",
                                !.log = Append(@, PORT(server.env))]
    /\ UNCHANGED <<reqs, rb, sh>>

\* the process started without PORT, listening on the default port
Serving ==
    [env |-> Unset,
     at |-> [pc |-> "logged", port |-> DefaultPort, pipe |-> <<>>, listeners |-> 1],
     log |-> <<PORT(Unset)>>]

(***************************************************************************)
(* scripts/: bootstrap.sh, install-argocd.sh, install-kong.sh              *)
(***************************************************************************)
\* the statements of a script
SetE == [kind |-> "set", what |-> "-e", left |-> ""]

Echo(text) == [kind |-> "echo", what |-> text, left |-> ""]

Cmd(command) == [kind |-> "cmd", what |-> command, left |-> ""]

\* left | right
Pipe(left, right) == [kind |-> "pipe", what |-> right, left |-> left]

\* the statement that runs another script as a command
Run(path) == [kind |-> "run", what |-> path, left |-> ""]

EndOfScript == [kind |-> "end", what |-> "", left |-> ""]

\* the scripts, statement by statement (the marks before the texts of echo
\* are left out)
Script(path) ==
    CASE path = "./scripts/bootstrap.sh" ->
            << SetE,
               Echo("Bootstrapping full lab environment..."),
               Echo("Starting Minikube..."),
               Cmd("minikube start"),
               Echo("Using minikube context..."),
               Cmd("kubectl config use-context minikube"),
               Echo("Enabling metrics-server..."),
               Cmd("minikube addons enable metrics-server"),
               Echo("Installing Argo CD..."),
               Run("./scripts/install-argocd.sh"),
               Echo("Installing Kong Gateway..."),
               Run("./scripts/install-kong.sh"),
               Echo("Applying Argo CD Application..."),
               Cmd("kubectl apply -f argocd/application.yaml"),
               Echo("Bootstrap completed"),
               Echo("Argo CD will now sync all k8s manifests via GitOps.") >>
      [] path = "./scripts/install-argocd.sh" ->
            << SetE,
               Echo("Installing Argo CD..."),
               Pipe("kubectl create namespace argocd --dry-run=client -o yaml",
                    "kubectl apply -f - (argocd)"),
               Cmd("helm repo add argo"),
               Cmd("helm repo update (argo)"),
               Cmd("helm upgrade --install argocd"),
               Echo("Argo CD installed") >>
      [] path = "./scripts/install-kong.sh" ->
            << SetE,
               Echo("Installing Kong Gateway..."),
               Pipe("kubectl create namespace kong --dry-run=client -o yaml",
                    "kubectl apply -f - (kong)"),
               Cmd("helm repo add kong"),
               Cmd("helm repo update (kong)"),
               Cmd("helm upgrade --install kong"),
               Echo("Kong installed") >>

Scripts ==
    {"./scripts/bootstrap.sh", "./scripts/install-argocd.sh", "./scripts/install-kong.sh"}

\* a shell that starts to run a script: errexit is off until set -e runs
Frame(path) == [script |-> path, idx |-> 1, errexit |-> FALSE, last |-> 0]

\* the Helm releases the scripts install, each into the namespace of its name
Releases == {"argocd", "kong"}

\* the cluster and the Helm client before any script ran: no namespace of
\* the scripts, no chart repository, no release (revision 0)
Fresh ==
    [namespaces |-> {}, repos |-> {}, releases |-> [n \in Releases |-> 0]]

\* helm install and kubectl create in place of helm upgrade --install and
\* kubectl apply: what exists is in the way
Permits_createOnly(command, cluster) ==
    CASE command = "kubectl apply -f - (argocd)" -> "argocd" \notin cluster.namespaces
      [] command = "kubectl apply -f - (kong)" -> "kong" \notin cluster.namespaces
      [] command = "helm upgrade --install argocd" ->
            /\ "argocd" \in cluster.namespaces
            /\ "argo" \in cluster.repos
            /\ cluster.releases["argocd"] = 0
      [] command = "helm upgrade --install kong" ->
            /\ "kong" \in cluster.namespaces
            /\ "kong" \in cluster.repos
            /\ cluster.releases["kong"] = 0
      [] command = "kubectl apply -f argocd/application.yaml" ->
            cluster.releases["argocd"] > 0
      [] OTHER -> TRUE

\* what the command needs to find in order to go through: helm upgrade
\* --install .. -n ns needs the namespace and the chart repository, and the
\* Application manifest needs the resource kinds Argo CD brings
Permits(command, cluster) ==
    CASE command = "helm upgrade --install argocd" ->
            "argocd" \in cluster.namespaces /\ "argo" \in cluster.repos
      [] command = "helm upgrade --install kong" ->
            "kong" \in cluster.namespaces /\ "kong" \in cluster.repos
      [] command = "kubectl apply -f argocd/application.yaml" ->
            cluster.releases["argocd"] > 0
      [] OTHER -> TRUE

\* what the command leaves behind when it goes through: apply creates the
\* namespace or leaves it as it is, repo add adds the repository or skips
\* it, upgrade --install installs the release or makes its next revision
Effect(command, cluster) ==
    CASE command = "kubectl apply -f - (argocd)" ->
            [cluster EXCEPT !.namespaces = @ \cup {"argocd"}]
      [] command = "kubectl apply -f - (kong)" ->
            [cluster EXCEPT !.namespaces = @ \cup {"kong"}]
      [] command = "helm repo add argo" ->
            [cluster EXCEPT !.repos = @ \cup {"argo"}]
      [] command = "helm repo add kong" ->
            [cluster EXCEPT !.repos = @ \cup {"kong"}]
      [] command = "helm upgrade --install argocd" ->
            [cluster EXCEPT !.releases["argocd"] = @ + 1]
      [] command = "helm upgrade --install kong" ->
            [cluster EXCEPT !.releases["kong"] = @ + 1]
      [] OTHER -> cluster

\* how a command ends: the environment fails it, what it finds is in its
\* way, or it goes through
Ending(env, command, cluster) ==
    IF ~env THEN "fail"
    ELSE IF ~Permits(command, cluster) THEN "refused"
    ELSE "ok"

NotRun ==
    [entry |-> "", stack |-> <<>>, log |-> <<>>, exit |-> -1,
     run |-> 0, before |-> Fresh, cluster |-> Fresh]

Started(path) ==
    [NotRun EXCEPT !.entry = path, !.stack = <<Frame(path)>>, !.run = 1]

Top(stack) == stack[Len(stack)]

\* the statement the innermost shell is at
Current ==
    LET f == Top(sh.stack)
    IN  IF f.idx <= Len(Script(f.script)) THEN Script(f.script)[f.idx] ELSE EndOfScript

At(kind) == sh.stack # <<>> /\ Current.kind = kind

\* the innermost shell after its statement ended with code: under errexit a
\* code other than 0 ends the script with that code, and otherwise the shell
\* goes on to its next statement
StatementEnded(stack, code) ==
    LET f == Top(stack)
    IN  IF code # 0 /\ f.errexit
        THEN [stack EXCEPT ![Len(stack)] =
                 [f EXCEPT !.idx = Len(Script(f.script)) + 1, !.last = code]]
        ELSE [stack EXCEPT ![Len(stack)] =
                 [f EXCEPT !.idx = f.idx + 1, !.last = code]]

Event(kind, what) == [kind |-> kind, what |-> what]

\* the exit code of a command that ended well or not
Code(ok) == IF ok THEN 0 ELSE 1

Outcome(ok) == IF ok THEN "ok" ELSE "fail"

\* set -e is not in effect
ShSet_ignored ==
    /\ At("set")
    /\ sh' = [sh EXCEPT !.stack = StatementEnded(@, 0)]
    /\ UNCHANGED <<reqs, rb, server>>

\* set -e
ShSet ==
    /\ At("set")
    /\ sh' = [sh EXCEPT
                 !.stack = StatementEnded([@ EXCEPT ![Len(@)].errexit = TRUE], 0)]
    /\ UNCHANGED <<reqs, rb, server>>

\* echo ".."
ShEcho ==
    /\ At("echo")
    /\ sh' = [sh EXCEPT !.stack = StatementEnded(@, 0),
                        !.log = Append(@, Event("echo", Current.what))]
    /\ UNCHANGED <<reqs, rb, server>>

\* a command: it ends well or it does not
ShCmd ==
    /\ At("cmd")
    /\ \E env \in BOOLEAN :
          LET ending == Ending(env, Current.what, sh.cluster)
          IN  sh' = [sh EXCEPT
                       !.stack = StatementEnded(@, Code(ending = "ok")),
                       !.log = Append(@, Event(ending, Current.what)),
                       !.cluster = IF ending = "ok"
                                   THEN Effect(Current.what, @) ELSE @]
    /\ UNCHANGED <<reqs, rb, server>>

\* left | right: both commands run, and the status of the pipeline is the
\* status of its right command, which has nothing to apply when the left
\* command wrote no manifest
ShPipe ==
    /\ At("pipe")
    /\ \E okl \in BOOLEAN, env \in BOOLEAN :
          LET ending == Ending(okl /\ env, Current.what, sh.cluster)
          IN  sh' = [sh EXCEPT
                       !.stack = StatementEnded(@, Code(ending = "ok")),
                       !.log = @ \o << Event("left-" \o Outcome(okl), Current.left),
                                       Event(ending, Current.what) >>,
                       !.cluster = IF ending = "ok"
                                   THEN Effect(Current.what, @) ELSE @]
    /\ UNCHANGED <<reqs, rb, server>>

\* ./scripts/x.sh: a new shell runs the script, or the file cannot be run
ShRun ==
    /\ At("run")
    /\ \/ sh' = [sh EXCEPT !.stack = Append(@, Frame(Current.what)),
                            !.log = Append(@, Event("start", Current.what))]
       \/ sh' = [sh EXCEPT !.stack = StatementEnded(@, 1),
                            !.log = Append(@, Event("fail", Current.what))]
    /\ UNCHANGED <<reqs, rb, server>>

\* the end of a script: its shell exits with the code of its last statement,
\* which is the code of the statement that ran it, or of the whole run
ShExit ==
    /\ At("end")
    /\ LET code   == Top(sh.stack).last
           caller == SubSeq(sh.stack, 1, Len(sh.stack) - 1)
       IN  IF caller = <<>>
           THEN sh' = [sh EXCEPT !.stack = <<>>, !.exit = code]
           ELSE sh' = [sh EXCEPT
                         !.stack = StatementEnded(caller, code),
                         !.log = Append(@, Event(Outcome(code = 0),
                                                 Top(sh.stack).script))]
    /\ UNCHANGED <<reqs, rb, server>>

\* after a run ended, a script is run again, against the cluster as the
\* runs before left it
ShAgain ==
    /\ sh.stack = <<>>
    /\ sh.exit # -1
    /\ sh.run < MaxRuns
    /\ \E path \in Scripts :
          sh' = [Started(path) EXCEPT !.run = sh.run + 1,
                                     !.before = sh.cluster,
                                     !.cluster = sh.cluster]
    /\ UNCHANGED <<reqs, rb, server>>

(***************************************************************************)
(* Requests                                                                *)
(***************************************************************************)
Methods == {"GET", "POST"}

\* a request path as its segments: /balance, /balance/x, /health, /unknown
Paths == {<<"balance">>, <<"balance", "x">>, <<"health">>, <<"unknown">>}

\* what the JSON parser finds in the request: "ok" is no body or well-formed
\* JSON, "malformed" is a JSON body that does not parse
Bodies == {"ok", "malformed"}

\* a failure object without status or message: {}
NoFailure == [status |-> Undefined, message |-> Undefined, stack |-> Undefined]

IdleRequest ==
    [method |-> "", path |-> <<>>, body |-> "ok", pc |-> "idle",
     raisedBy |-> "none", err |-> NoFailure, ran |-> <<>>, out |-> <<>>]

\* the middleware named stage has run for the request and left it at pc
Ran(q, stage, pc) == [q EXCEPT !.ran = Append(@, stage), !.pc = pc]

\* the middleware answers the failure itself instead of calling next(err)
Raise_answeredLocally(q, stage, err) ==
    [Ran(q, stage, "done") EXCEPT
        !.raisedBy = stage, !.err = err,
        !.out = Append(@, [by |-> stage, status |-> 500,
                           type |-> "application/json",
                           body |-> ToJson(ResponseBuilder_error(err.message))])]

\* next(err): the remaining ordinary middleware are skipped
Raise(q, stage, err) ==
    [Ran(q, stage, "error") EXCEPT !.raisedBy = stage, !.err = err]

\* a response without a body
NoBody == [f \in {} |-> Undefined]

\* what is sent of a body: nothing in answer to HEAD
Sent(method, body) == IF method = "HEAD" THEN NoBody ELSE body

\* the middleware named stage wrote response: the handling ends
Respond(q, stage, response) ==
    [Ran(q, stage, "done") EXCEPT
        !.out = Append(@, [by |-> stage, status |-> response.status,
                           type |-> response.type,
                           body |-> Sent(q.method, response.body)])]

\* a route handler returned result: its response, or what it threw, which the
\* router hands to next(err)
Handled(q, stage, result) ==
    IF IsThrown(result)
    THEN Raise(q, stage, result.thrown)
    ELSE Respond(q, stage, result)

\* the error-handling middleware returned result: its response, or what it
\* threw, which is left to the framework as no error handler follows
ErrorHandled(q, stage, result) ==
    IF IsThrown(result)
    THEN [Respond(q, "finalhandler", FinalHandler(result.thrown)) EXCEPT
             !.ran = Append(q.ran, stage) \o <<"finalhandler">>]
    ELSE Respond(q, stage, result)

\* the mount path of app.use(prefix, ..) matches whole leading segments
MountMatches(prefix, path) ==
    /\ Len(path) >= Len(prefix)
    /\ SubSeq(path, 1, Len(prefix)) = prefix

\* the path left to a mounted router, the mount path stripped
MountRest(prefix, path) == SubSeq(path, Len(prefix) + 1, Len(path))

\* a route bound with get handles GET and, as no route is bound to HEAD, HEAD
RouteHandles(bound, method) ==
    method = bound \/ (bound = "GET" /\ method = "HEAD")

\* routes/balance.routes: the router binds GET / to getBalance
balanceRoutes(method, rest) == RouteHandles("GET", method) /\ rest = <<>>

\* the router has a route on the path but none for OPTIONS: it answers the
\* request itself with the methods of the route
RouterOptions(method, rest) == method = "OPTIONS" /\ rest = <<>>

OptionsResponse ==
    [status |-> 200, type |-> "text/html", body |-> [allow |-> Str("GET,HEAD")]]

\* the failure express.json() raises on a body that is not JSON
JsonParseError ==
    [status |-> Num(400), message |-> Str("Unexpected token"),
     stack |-> Str("SyntaxError: at JSON.parse")]

(***************************************************************************)
(* The listener accepts a request (server.ts, app.listen)                  *)
(***************************************************************************)
Receive(r) ==
    /\ server.at.listeners = 1
    /\ reqs[r].pc = "idle"
    /\ \E m \in Methods, p \in Paths, b \in Bodies :
          reqs' = [reqs EXCEPT ![r] =
                     [IdleRequest EXCEPT !.method = m, !.path = p,
                                         !.body = b, !.pc = "json"]]
    /\ UNCHANGED <<rb, server, sh>>

(***************************************************************************)
(* app.use(express.json())                                                 *)
(***************************************************************************)
\* the parser lets a body it cannot parse through to the routes
JsonParser_lenient(r) ==
    /\ reqs[r].pc = "json"
    /\ reqs' = [reqs EXCEPT ![r] = Ran(@, "json", "balance")]
    /\ UNCHANGED <<rb, server, sh>>

JsonParser(r) ==
    /\ reqs[r].pc = "json"
    /\ reqs' = [reqs EXCEPT ![r] =
                  IF @.body = "malformed"
                  THEN Raise(@, "json", JsonParseError)
                  ELSE Ran(@, "json", "balance")]
    /\ UNCHANGED <<rb, server, sh>>

(***************************************************************************)
(* app.use("/balance", balanceRoutes)                                      *)
(***************************************************************************)
\* the balance is kept in a module-level variable that every call draws on
BalanceRouter_spending(r) ==
    /\ reqs[r].pc = "balance"
    /\ reqs' = [reqs EXCEPT ![r] =
                  IF /\ MountMatches(<<"balance">>, @.path)
                     /\ balanceRoutes(@.method, MountRest(<<"balance">>, @.path))
                  THEN Handled(@, "balance",
                          res_status_json(Num(200), ResponseBuilder_success(
                             [balance |-> Num(12345 - Cardinality(
                                             {x \in Reqs : reqs[x].pc = "done"})),
                              currency |-> Str("USD")])))
                  ELSE [@ EXCEPT !.pc = "health"]]
    /\ UNCHANGED <<rb, server, sh>>

BalanceRouter(r) ==
    /\ reqs[r].pc = "balance"
    /\ reqs' = [reqs EXCEPT ![r] =
                  IF /\ MountMatches(<<"balance">>, @.path)
                     /\ balanceRoutes(@.method, MountRest(<<"balance">>, @.path))
                  THEN Handled(@, "balance", getBalance)
                  ELSE IF /\ MountMatches(<<"balance">>, @.path)
                          /\ RouterOptions(@.method, MountRest(<<"balance">>, @.path))
                  THEN Respond(@, "balanceOptions", OptionsResponse)
                  ELSE [@ EXCEPT !.pc = "health"]]
    /\ UNCHANGED <<rb, server, sh>>

(***************************************************************************)
(* app.get("/health", ..)                                                  *)
(***************************************************************************)
\* the health body is wrapped like a balance payload
healthHandler_enveloped ==
    res_status_json(Num(200), ResponseBuilder_success([status |-> Str("ok")]))

\* the probe reports the service as unavailable
healthHandler_unavailable == res_status_json(Num(503), [status |-> Str("ok")])

healthHandler == res_status_json(Num(200), [status |-> Str("ok")])

\* the handler is bound to the path for every method
Health_anyMethod(r) ==
    /\ reqs[r].pc = "health"
    /\ reqs' = [reqs EXCEPT ![r] =
                  IF @.path = <<"health">>
                  THEN Handled(@, "health", healthHandler)
                  ELSE [@ EXCEPT !.pc = "notFound"]]
    /\ UNCHANGED <<rb, server, sh>>

Health(r) ==
    /\ reqs[r].pc = "health"
    /\ reqs' = [reqs EXCEPT ![r] =
                  IF RouteHandles("GET", @.method) /\ @.path = <<"health">>
                  THEN Handled(@, "health", healthHandler)
                  ELSE [@ EXCEPT !.pc = "notFound"]]
    /\ UNCHANGED <<rb, server, sh>>

(***************************************************************************)
(* app.use((_req, _res, next) => next(new NotFoundError(..)))              *)
(***************************************************************************)
\* the failure is raised under another message
notFoundMiddleware_otherMessage == NotFoundError("Not Found")

notFoundMiddleware == NotFoundError("Route not found")

NotFound(r) ==
    /\ reqs[r].pc = "notFound"
    /\ reqs' = [reqs EXCEPT ![r] = Raise(@, "notFound", notFoundMiddleware)]
    /\ UNCHANGED <<rb, server, sh>>

(***************************************************************************)
(* app.use(errorHandler)                                                   *)
(***************************************************************************)
\* the translator responds and then passes the failure on with next(err),
\* which the framework answers as well
ErrorHandler_passOn(r) ==
    /\ reqs[r].pc = "error"
    /\ reqs' = [reqs EXCEPT ![r] =
                  [ErrorHandled(@, "errorHandler", errorHandler(@.err)) EXCEPT
                      !.out = Append(@, [by |-> "finalhandler", status |-> 500,
                                         type |-> "text/html",
                                         body |-> [html |-> Str("")]])]]
    /\ UNCHANGED <<rb, server, sh>>

\* the failure is kept in a module-level variable that the last raise wins
ErrorHandler_sharedFailure(r) ==
    /\ reqs[r].pc = "error"
    /\ LET others == {x \in Reqs \ {r} : reqs[x].raisedBy # "none"}
           err    == IF others = {}
                     THEN reqs[r].err
                     ELSE reqs[CHOOSE x \in others : TRUE].err
       IN  reqs' = [reqs EXCEPT ![r] =
                      ErrorHandled(@, "errorHandler", errorHandler(err))]
    /\ UNCHANGED <<rb, server, sh>>

ErrorHandler(r) ==
    /\ reqs[r].pc = "error"
    /\ reqs' = [reqs EXCEPT ![r] =
                  ErrorHandled(@, "errorHandler", errorHandler(@.err))]
    /\ UNCHANGED <<rb, server, sh>>

(***************************************************************************)
(* ResponseBuilder applied on its own: rb holds the two arguments and, once *)
(* a method was called, what it returned                                   *)
(***************************************************************************)
NotCalled == [called |-> FALSE]

Returned(v) == [called |-> TRUE, value |-> v]

NoBuilderCall ==
    [payload |-> Undefined, message |-> Str(""),
     success |-> NotCalled, error |-> NotCalled]

BuildSuccess ==
    /\ ~rb.success.called
    /\ rb' = [rb EXCEPT !.success = Returned(ResponseBuilder_success(rb.payload))]
    /\ UNCHANGED <<reqs, server, sh>>

BuildError ==
    /\ ~rb.error.called
    /\ rb' = [rb EXCEPT !.error = Returned(ResponseBuilder_error(rb.message))]
    /\ UNCHANGED <<reqs, server, sh>>

(***************************************************************************)
(* The service                                                             *)
(***************************************************************************)
Init ==
    /\ reqs = [r \in Reqs |-> IdleRequest]
    /\ rb = NoBuilderCall
    /\ server = Serving
    /\ sh = NotRun

\* one middleware of the chain runs for request r
Step(r) ==
    \/ JsonParser(r)
    \/ BalanceRouter(r)
    \/ Health(r)
    \/ NotFound(r)
    \/ ErrorHandler(r)

Next ==
    \/ \E r \in Reqs : Receive(r)
    \/ \E r \in Reqs : JsonParser(r)
    \/ \E r \in Reqs : BalanceRouter(r)
    \/ \E r \in Reqs : Health(r)
    \/ \E r \in Reqs : NotFound(r)
    \/ \E r \in Reqs : ErrorHandler(r)

Spec == Init /\ [][Next]_vars

\* every middleware is synchronous and the event loop runs whatever is
\* pending: a request inside the chain is not left waiting forever
FairSpec == Spec /\ \A r \in Reqs : WF_vars(Step(r))

(***************************************************************************)
(* The start of the process under every environment, before any request    *)
(***************************************************************************)
InitBoot ==
    /\ \E env \in Envs : server = Process(env)
    /\ reqs = [r \in Reqs |-> IdleRequest]
    /\ rb = NoBuilderCall
    /\ sh = NotRun

NextBoot == Listen \/ LogListening

SpecBoot == InitBoot /\ [][NextBoot]_vars

(***************************************************************************)
(* A run of one of the scripts, every command of it ending well or not     *)
(***************************************************************************)
InitSh ==
    /\ \E path \in Scripts : sh = Started(path)
    /\ reqs = [r \in Reqs |-> IdleRequest]
    /\ rb = NoBuilderCall
    /\ server = Process(Unset)

NextSh == ShSet \/ ShEcho \/ ShCmd \/ ShPipe \/ ShRun \/ ShExit \/ ShAgain

SpecSh == InitSh /\ [][NextSh]_vars

\* the chain run for one request alone, from the parser to the response,
\* with the middleware that writes the response
SoloAnswer(method, path, body) ==
    LET Written(stage, response) ==
            [by |-> stage, status |-> response.status,
             type |-> response.type, body |-> Sent(method, response.body)]
    IN  IF body = "malformed"
        THEN Written("errorHandler", errorHandler(JsonParseError))
        ELSE IF /\ MountMatches(<<"balance">>, path)
                /\ balanceRoutes(method, MountRest(<<"balance">>, path))
        THEN Written("balance", getBalance)
        ELSE IF /\ MountMatches(<<"balance">>, path)
                /\ RouterOptions(method, MountRest(<<"balance">>, path))
        THEN Written("balanceOptions", OptionsResponse)
        ELSE IF RouteHandles("GET", method) /\ path = <<"health">>
        THEN Written("health", healthHandler)
        ELSE Written("errorHandler", errorHandler(notFoundMiddleware))

(***************************************************************************)
(* The service used by one client that sends its requests one after the    *)
(* other: request r is sent once every request before it was answered      *)
(***************************************************************************)
\* a later request refused because of the failures before it
ReceiveInTurn_limited(r) ==
    /\ \A x \in 1..(r - 1) :
          reqs[x].pc = "done" /\ reqs[x].out[1].by # "errorHandler"
    /\ Receive(r)

ReceiveInTurn(r) ==
    /\ \A x \in 1..(r - 1) : reqs[x].pc = "done"
    /\ Receive(r)

NextSeq ==
    \/ \E r \in Reqs : ReceiveInTurn(r)
    \/ \E r \in Reqs : JsonParser(r)
    \/ \E r \in Reqs : BalanceRouter(r)
    \/ \E r \in Reqs : Health(r)
    \/ \E r \in Reqs : NotFound(r)
    \/ \E r \in Reqs : ErrorHandler(r)

SpecSeq == Init /\ [][NextSeq]_vars

(***************************************************************************)
(* One request of every method, taken through the chain                    *)
(***************************************************************************)
Verbs == {"GET", "HEAD", "POST", "PUT", "DELETE", "OPTIONS"}

\* the request as the listener hands it to the chain
Accepted(method, path, body) ==
    [IdleRequest EXCEPT !.method = method, !.path = path,
                        !.body = body, !.pc = "json"]

InitVerb ==
    /\ \E m \in Verbs, p \in Paths, b \in Bodies :
          reqs = [r \in Reqs |-> IF r = 1 THEN Accepted(m, p, b) ELSE IdleRequest]
    /\ rb = NoBuilderCall
    /\ server = Serving
    /\ sh = NotRun

NextVerb == \E r \in Reqs : Step(r)

SpecVerb == InitVerb /\ [][NextVerb]_vars

(***************************************************************************)
(* The error translator on any failure object (err: any): request 1 is a   *)
(* request whose route handler raised the failure err                      *)
(***************************************************************************)
Statuses ==
    {Undefined, Num(0), Num(-1), Num(99), Num(200), Num(403), Num(404),
     Num(500), Num(700), Num(1000), Str(""), Str("abc")}

Messages ==
    {Undefined, Str(""), Str("Forbidden"), Str("Route not found"),
     Num(0), Num(42), Obj("{}"), Fn}

\* what else a failure carries besides status and message
Stacks == {Undefined, Str("Error: at getBalance (balance.controller.ts:11)")}

Failures == [status : Statuses, message : Messages, stack : Stacks]

FailedRequest(err) ==
    [method |-> "GET", path |-> <<"balance">>, body |-> "ok", pc |-> "error",
     raisedBy |-> "balance", err |-> err, ran |-> <<"json", "balance">>,
     out |-> <<>>]

InitErr ==
    /\ \E err \in Failures :
          reqs = [r \in Reqs |-> IF r = 1 THEN FailedRequest(err) ELSE IdleRequest]
    /\ rb = NoBuilderCall
    /\ server = Serving
    /\ sh = NotRun

NextErr == \E r \in Reqs : ErrorHandler(r)

SpecErr == InitErr /\ [][NextErr]_vars

(***************************************************************************)
(* ResponseBuilder on any payload and any message                          *)
(***************************************************************************)
Payloads ==
    {getBalanceValue, Undefined, Num(0), Num(7), Str(""), Str("x"),
     Bool(FALSE), Obj("{}")}

Texts ==
    {Str(""), Str("Forbidden"), Str("Route not found"),
     Str("Internal Server Error")}

InitRB ==
    /\ reqs = [r \in Reqs |-> IdleRequest]
    /\ \E p \in Payloads, m \in Texts :
          rb = [NoBuilderCall EXCEPT !.payload = p, !.message = m]
    /\ server = Serving
    /\ sh = NotRun

NextRB == BuildSuccess \/ BuildError

SpecRB == InitRB /\ [][NextRB]_vars

(***************************************************************************)
(* Properties                                                              *)
(***************************************************************************)
Done(r) == reqs[r].pc = "done"

\* the first response request r got
Answer(r) == reqs[r].out[1]

\* express.json() finds nothing to reject in the request's body
ParserAccepts(q) == q.body # "malformed"

\* the paths a route is registered for
Registered == {<<"balance">>, <<"health">>}

\* the body is the success envelope around the balance record
IsBalanceEnvelope(body) ==
    /\ DOMAIN body = {"success", "data"}
    /\ body.success = Bool(TRUE)
    /\ DOMAIN body.data = {"balance", "currency"}
    /\ body.data.balance.t = "number"
    /\ body.data.currency.t = "string"
    /\ body.data = getBalanceValue

\* the body is the failure envelope around message
IsFailureEnvelope(body, message) ==
    /\ DOMAIN body = {"success", "error"}
    /\ body.success = Bool(FALSE)
    /\ body.error = message

BalanceAnswer(r) ==
    /\ Len(reqs[r].out) = 1
    /\ Answer(r).status = 200
    /\ Answer(r).type = "application/json"
    /\ IsBalanceEnvelope(Answer(r).body)

\* C1 as stated: every answered GET /balance got 200 and the success envelope
\* around a numeric balance and a string currency.
C1_GetBalanceAlways200 ==
    \A r \in Reqs :
        (Done(r) /\ reqs[r].method = "GET" /\ reqs[r].path = <<"balance">>)
            => BalanceAnswer(r)

\* C1 amended: every answered GET /balance whose body the JSON parser did not
\* reject got 200 and the success envelope around a numeric balance and a
\* string currency.
C1_GetBalance200 ==
    \A r \in Reqs :
        (/\ Done(r)
         /\ reqs[r].method = "GET"
         /\ reqs[r].path = <<"balance">>
         /\ ParserAccepts(reqs[r]))
            => BalanceAnswer(r)

C1_Witness ==
    \E r \in Reqs :
        /\ Done(r)
        /\ reqs[r].method = "GET"
        /\ reqs[r].path = <<"balance">>
        /\ reqs[r].body = "ok"
        /\ Answer(r).by = "balance"
        /\ Answer(r).status = 200

NotFoundAnswer(r) ==
    /\ Len(reqs[r].out) = 1
    /\ reqs[r].raisedBy = "notFound"
    /\ reqs[r].err = NotFoundError("Route not found")
    /\ Answer(r).by = "errorHandler"
    /\ Answer(r).status = 404
    /\ Answer(r).type = "application/json"
    /\ IsFailureEnvelope(Answer(r).body, Str("Route not found"))

\* C2 as stated: every answered GET to a path that is not a registered route
\* got 404 and {success:false, error:"Route not found"}, raised by the
\* not-found middleware and rendered by the error translator.
C2_UnknownRouteAlways404 ==
    \A r \in Reqs :
        (Done(r) /\ reqs[r].method = "GET" /\ reqs[r].path \notin Registered)
            => NotFoundAnswer(r)

\* C2 amended: every answered GET to a path that is not a registered route,
\* whose body the JSON parser did not reject, got 404 and
\* {success:false, error:"Route not found"}, raised by the not-found
\* middleware and rendered by the error translator.
C2_UnknownRoute404 ==
    \A r \in Reqs :
        (/\ Done(r)
         /\ reqs[r].method = "GET"
         /\ reqs[r].path \notin Registered
         /\ ParserAccepts(reqs[r]))
            => NotFoundAnswer(r)

C2_Witness ==
    \E r \in Reqs :
        /\ Done(r)
        /\ reqs[r].method = "GET"
        /\ reqs[r].path = <<"unknown">>
        /\ reqs[r].ran = <<"json", "notFound", "errorHandler">>
        /\ Answer(r).status = 404

\* the error translator was handed request r's failure and the handling ended
Translated(r) ==
    /\ Done(r)
    /\ \E i \in 1..Len(reqs[r].ran) : reqs[r].ran[i] = "errorHandler"

\* the failure carries the field: its value is not undefined
Present(v) == v # Undefined

\* C3 as stated: a failure that reached the error translator with a status s
\* and a message m present was answered with status s and error m.
C3_ExplicitVerbatim ==
    \A r \in Reqs :
        (/\ Translated(r)
         /\ Present(reqs[r].err.status)
         /\ Present(reqs[r].err.message))
            => /\ Len(reqs[r].out) = 1
               /\ Num(Answer(r).status) = reqs[r].err.status
               /\ "error" \in DOMAIN Answer(r).body
               /\ Answer(r).body.error = reqs[r].err.message

\* s is a status code of HTTP: an integer from 100 to 599
HttpStatus(v) == v.t = "number" /\ v.n >= 100 /\ v.n <= 599

NonEmptyString(v) == v.t = "string" /\ v.s # ""

\* C3 amended: a failure that reached the error translator with a status s
\* that is an HTTP status code (100..599) and a message m that is a non-empty
\* string was answered by the translator with status s and the failure
\* envelope around m; no default took their place.
C3_ValidVerbatim ==
    \A r \in Reqs :
        (/\ Translated(r)
         /\ HttpStatus(reqs[r].err.status)
         /\ NonEmptyString(reqs[r].err.message))
            => /\ Len(reqs[r].out) = 1
               /\ Answer(r).by = "errorHandler"
               /\ Answer(r).status = reqs[r].err.status.n
               /\ Answer(r).type = "application/json"
               /\ IsFailureEnvelope(Answer(r).body, reqs[r].err.message)

C3_Witness ==
    \E r \in Reqs :
        /\ Translated(r)
        /\ reqs[r].err.status = Num(403)
        /\ reqs[r].err.message = Str("Forbidden")
        /\ Answer(r).status = 403
        /\ Answer(r).body.error = Str("Forbidden")

\* C4: a failure that reached the error translator with neither a status nor
\* a message was answered with 500 and
\* {success:false, error:"Internal Server Error"}.
C4_BareFailure500 ==
    \A r \in Reqs :
        (/\ Translated(r)
         /\ ~Present(reqs[r].err.status)
         /\ ~Present(reqs[r].err.message))
            => /\ Len(reqs[r].out) = 1
               /\ Answer(r).by = "errorHandler"
               /\ Answer(r).status = 500
               /\ Answer(r).type = "application/json"
               /\ IsFailureEnvelope(Answer(r).body, Str("Internal Server Error"))

C4_Witness ==
    \E r \in Reqs :
        /\ Translated(r)
        /\ reqs[r].err.status = Undefined
        /\ reqs[r].err.message = Undefined
        /\ Answer(r).status = 500

\* C5: a failure whose status is absent or is not an HTTP status code was
\* answered with status 500.
C5_InvalidStatus500 ==
    \A r \in Reqs :
        (Translated(r) /\ ~HttpStatus(reqs[r].err.status))
            => /\ Len(reqs[r].out) = 1
               /\ Answer(r).status = 500

\* C5 is about these inputs: such a failure was translated
C5_Reached ==
    \E r \in Reqs :
        /\ Translated(r)
        /\ reqs[r].err.status = Num(700)
        /\ Answer(r).status = 700

\* the responses request r has got, with the middleware that wrote each
Answers(r) == {reqs[r].out[i] : i \in 1..Len(reqs[r].out)}

HasSuccessFlag(body) ==
    "success" \in DOMAIN body /\ body.success.t = "boolean"

C7_FailureEnvelope ==
    \A r \in Reqs : \A a \in Answers(r) :
        a.by = "errorHandler"
            => /\ HasSuccessFlag(a.body)
               /\ a.body.success = Bool(FALSE)
               /\ "error" \in DOMAIN a.body
               /\ NonEmptyString(a.body.error)
               /\ "data" \notin DOMAIN a.body

\* C7 is about these inputs: a failure whose message is not a string was
\* translated
C7_Reached ==
    \E r \in Reqs :
        /\ Translated(r)
        /\ reqs[r].err.message = Num(42)
        /\ Answer(r).by = "errorHandler"

\* the envelope carries exactly one of data and error, as its flag says
ExactlyOne(e) ==
    /\ ("data" \in DOMAIN e) # ("error" \in DOMAIN e)
    /\ (e.success = Bool(TRUE)) <=> ("data" \in DOMAIN e)

\* C8: each method of ResponseBuilder can be called on every argument and
\* touches nothing else; success returns exactly {success:true, data:payload}
\* and error exactly {success:false, error:message}, so the envelope carries
\* exactly one of data and error, as its flag says.
C8_BuilderExact ==
    /\ ~rb.success.called => ENABLED BuildSuccess
    /\ ~rb.error.called => ENABLED BuildError
    /\ reqs = [r \in Reqs |-> IdleRequest]
    /\ rb.success.called
          => /\ DOMAIN rb.success.value = {"success", "data"}
             /\ rb.success.value.success = Bool(TRUE)
             /\ rb.success.value.data = rb.payload
             /\ ExactlyOne(rb.success.value)
    /\ rb.error.called
          => /\ DOMAIN rb.error.value = {"success", "error"}
             /\ rb.error.value.success = Bool(FALSE)
             /\ rb.error.value.error = rb.message
             /\ ExactlyOne(rb.error.value)

C8_Witness ==
    /\ rb.success.called
    /\ rb.error.called
    /\ rb.payload = Undefined
    /\ rb.message = Str("")

\* the request is inside the chain: received and not yet answered
InFlight(r) == reqs[r].pc \notin {"idle", "done"}

\* C9: a request has at most one response at any time and exactly one once
\* its handling ended; nothing happens to a request after its response (no
\* retry, no failure passed on); and every received request is eventually
\* answered: from some point on no request is left inside the chain.
C9_ExactlyOneResponse ==
    /\ [](\A r \in Reqs :
            /\ Len(reqs[r].out) <= 1
            /\ Done(r) <=> Len(reqs[r].out) = 1)
    /\ [][\A r \in Reqs : Done(r) => reqs'[r] = reqs[r]]_vars
    /\ <>[](\A r \in Reqs : ~InFlight(r))

C9_Witness ==
    \E r1 \in Reqs, r2 \in Reqs :
        /\ Done(r1) /\ Answer(r1).by = "errorHandler" /\ Len(reqs[r1].out) = 1
        /\ Done(r2) /\ Answer(r2).by = "balance" /\ Len(reqs[r2].out) = 1

\* the middleware that can raise a failure
Raisers == {"json", "balance", "health", "notFound"}

\* how often the middleware named stage ran for the request
TimesRan(q, stage) == Cardinality({i \in 1..Len(q.ran) : q.ran[i] = stage})

\* C10: a failure raised by a middleware goes straight to the error
\* translator, which alone answers it, once; no middleware upstream of the
\* translator writes a failure response, and a request no route matched
\* reaches the translator as NotFoundError("Route not found").
C10_CentralTranslator ==
    \A r \in Reqs :
        LET q == reqs[r]
            n == Len(q.ran)
        IN  /\ q.raisedBy # "none"
                  => /\ q.raisedBy \in Raisers
                     /\ q.pc \in {"error", "done"}
                     /\ q.pc = "error"
                           => (q.out = <<>> /\ n >= 1 /\ q.ran[n] = q.raisedBy)
                     /\ q.pc = "done"
                           => /\ n >= 2
                              /\ q.ran[n] = "errorHandler"
                              /\ q.ran[n - 1] = q.raisedBy
                              /\ Len(q.out) = 1
                              /\ q.out[1].by = "errorHandler"
            /\ TimesRan(q, "errorHandler") <= 1
            /\ TimesRan(q, "errorHandler") = 1 => q.raisedBy # "none"
            /\ TimesRan(q, "notFound") = 1
                  => /\ q.raisedBy = "notFound"
                     /\ q.err = NotFoundError("Route not found")
            /\ \A a \in Answers(r) :
                  a.by # "errorHandler"
                      => /\ a.by \in {"balance", "health"}
                         /\ a.status = 200
                         /\ "error" \notin DOMAIN a.body

C10_Witness ==
    \E r1 \in Reqs, r2 \in Reqs :
        /\ Done(r1) /\ reqs[r1].raisedBy = "json"
        /\ reqs[r1].ran = <<"json", "errorHandler">>
        /\ Done(r2) /\ reqs[r2].raisedBy = "notFound"
        /\ reqs[r2].ran = <<"json", "notFound", "errorHandler">>

HealthAnswer(r) ==
    /\ Len(reqs[r].out) = 1
    /\ Answer(r).by = "health"
    /\ Answer(r).status = 200
    /\ Answer(r).type = "application/json"
    /\ Answer(r).body = [status |-> Str("ok")]

\* C11 as stated: every answered GET /health got 200 and {status:"ok"}.
C11_GetHealthAlways200 ==
    \A r \in Reqs :
        (Done(r) /\ reqs[r].method = "GET" /\ reqs[r].path = <<"health">>)
            => HealthAnswer(r)

\* C11 amended: every answered GET /health whose body the JSON parser did not
\* reject got 200 and the body {status:"ok"}, written by the health handler.
C11_GetHealth200 ==
    \A r \in Reqs :
        (/\ Done(r)
         /\ reqs[r].method = "GET"
         /\ reqs[r].path = <<"health">>
         /\ ParserAccepts(reqs[r]))
            => HealthAnswer(r)

C11_Witness ==
    \E r \in Reqs :
        /\ Done(r)
        /\ reqs[r].method = "GET"
        /\ reqs[r].path = <<"health">>
        /\ reqs[r].ran = <<"json", "health">>
        /\ Answer(r).body = [status |-> Str("ok")]

\* the response request r gets when it is the only request ever sent
Alone(r) == SoloAnswer(reqs[r].method, reqs[r].path, reqs[r].body)

\* C12: a client sends its requests one after the other; whatever the earlier
\* requests were and however they ended, the next request is accepted, and
\* every answered request got the response it gets as the first request.
C12_KeepsServing ==
    \A r \in Reqs :
        /\ (reqs[r].pc = "idle" /\ \A x \in 1..(r - 1) : Done(x))
              => ENABLED ReceiveInTurn(r)
        /\ Done(r) => reqs[r].out = <<Alone(r)>>
        /\ reqs[r].pc # "idle" => \A x \in 1..(r - 1) : reqs[x].out = <<Alone(x)>>

C12_Witness ==
    \E r \in Reqs :
        /\ r > 1
        /\ Done(r - 1)
        /\ Answer(r - 1).status = 404
        /\ Done(r)
        /\ reqs[r].method = "GET"
        /\ reqs[r].path = <<"balance">>
        /\ Answer(r).status = 200

\* the two requests are the same call
SameCall(r1, r2) ==
    /\ reqs[r1].method = reqs[r2].method
    /\ reqs[r1].path = reqs[r2].path
    /\ reqs[r1].body = reqs[r2].body

\* C13: any two answered GET /balance calls that are the same call got the
\* same status and the same body, in whatever order they were handled.
C13_BalanceIdempotent ==
    \A r1 \in Reqs, r2 \in Reqs :
        (/\ Done(r1) /\ Done(r2)
         /\ reqs[r1].method = "GET"
         /\ reqs[r1].path = <<"balance">>
         /\ SameCall(r1, r2))
            => /\ Answer(r1).status = Answer(r2).status
               /\ Answer(r1).body = Answer(r2).body
               /\ reqs[r1].out = reqs[r2].out

C13_Witness ==
    \E r1 \in Reqs, r2 \in Reqs :
        /\ r1 # r2
        /\ Done(r1) /\ Done(r2)
        /\ reqs[r1].method = "GET"
        /\ reqs[r1].path = <<"balance">>
        /\ reqs[r1].body = "ok"
        /\ SameCall(r1, r2)
        /\ Answer(r1).by = "balance"
        /\ Answer(r2).by = "balance"

\* C14: with requests in flight together, a handling step touches the one
\* request it runs for; a request has no response before its handling ends
\* and then has the response it gets when handled alone.
C14_NoInterference ==
    /\ [](\A r \in Reqs :
            /\ InFlight(r) => reqs[r].out = <<>>
            /\ Done(r) => reqs[r].out = <<Alone(r)>>)
    /\ [][\A r1 \in Reqs, r2 \in Reqs :
            (reqs'[r1] # reqs[r1] /\ reqs'[r2] # reqs[r2]) => r1 = r2]_vars

C14_Witness ==
    \E r1 \in Reqs, r2 \in Reqs :
        /\ reqs[r1].pc = "error"
        /\ reqs[r1].raisedBy = "json"
        /\ reqs[r2].pc = "error"
        /\ reqs[r2].raisedBy = "notFound"

\* the two failures agree on status and message
SameStatusAndMessage(e1, e2) ==
    e1.status = e2.status /\ e1.message = e2.message

\* C15: the response to a translated failure is a JSON body with no field
\* besides success and error, no field of it holds the failure's stack, and
\* every failure with the same status and message is rendered the same.
C15_OnlyStatusAndMessage ==
    \A r \in Reqs :
        Translated(r)
            => /\ Len(reqs[r].out) = 1
               /\ Answer(r).type = "application/json"
               /\ DOMAIN Answer(r).body \subseteq {"success", "error"}
               /\ \A f \in DOMAIN Answer(r).body :
                     Present(reqs[r].err.stack)
                        => Answer(r).body[f] # reqs[r].err.stack
               /\ \A e \in Failures :
                     SameStatusAndMessage(e, reqs[r].err)
                        => errorHandler(e) = errorHandler(reqs[r].err)

\* C15 is about these inputs: a failure with a stack was translated
C15_Reached ==
    \E r \in Reqs :
        /\ Translated(r)
        /\ Present(reqs[r].err.stack)
        /\ reqs[r].err.status = Num(-1)
        /\ Answer(r).by = "finalhandler"

\* C15 where the translator itself writes the response: the same, for the
\* failures whose status the HTTP layer accepts or replaces by 500
C15_TranslatorOnlyStatusAndMessage ==
    \A r \in Reqs :
        (Translated(r) /\ Answer(r).by = "errorHandler")
            => /\ Answer(r).type = "application/json"
               /\ DOMAIN Answer(r).body \subseteq {"success", "error"}
               /\ \A f \in DOMAIN Answer(r).body :
                     Present(reqs[r].err.stack)
                        => Answer(r).body[f] # reqs[r].err.stack
               /\ \A e \in Failures :
                     SameStatusAndMessage(e, reqs[r].err)
                        => errorHandler(e) = errorHandler(reqs[r].err)

\* the process has a listener
Up == server.at.pc \in {"listening", "logged"}

\* the text is the numeral of a port a listener can be asked to take
NamesPort(text) ==
    IsNumeral(text) /\ ToNumber(text) \in 1..65535

\* C16 as stated: once listening there is one listener, on the port PORT
\* holds whenever PORT is set, and on 10000 when it is unset.
C16_ListensOnPORT ==
    Up => /\ server.at.listeners = 1
          /\ server.at.pipe = <<>>
          /\ server.env.set
                => (/\ IsNumeral(server.env.text)
                    /\ server.at.port = ToNumber(server.env.text))
          /\ (~server.env.set) => server.at.port = 10000

\* C16: the process never has more than one listener and has one exactly
\* when it is listening; it then listens on the port PORT names when PORT is
\* the numeral of a port in 1..65535, and on port 10000 when PORT is unset or
\* empty; the line it logs shows PORT as resolved.
C16_ListensOnNamedPort ==
    /\ server.at.listeners \in {0, 1}
    /\ (server.at.listeners = 1) <=> Up
    /\ (Up /\ server.env.set /\ NamesPort(server.env.text))
            => (/\ server.at.port = ToNumber(server.env.text)
                /\ server.at.pipe = <<>>)
    /\ (Up /\ (~server.env.set \/ server.env.text = <<>>))
            => (/\ server.at.port = 10000
                /\ server.at.pipe = <<>>)
    /\ (server.at.pc = "logged") => server.log = <<PORT(server.env)>>
    /\ (server.at.pc # "logged") => server.log = <<>>

C16_Witness ==
    /\ server.at.pc = "logged"
    /\ server.env.text = <<"1", "0", "7">>
    /\ server.at.port = 107
    /\ server.at.listeners = 1

\* the steps of bootstrap.sh, in the order of the script
BootstrapSteps ==
    << "minikube start",
       "kubectl config use-context minikube",
       "minikube addons enable metrics-server",
       "./scripts/install-argocd.sh",
       "./scripts/install-kong.sh",
       "kubectl apply -f argocd/application.yaml" >>

IsBootstrapStep(e) ==
    /\ e.kind \in {"ok", "fail"}
    /\ \E i \in DOMAIN BootstrapSteps : e.what = BootstrapSteps[i]

\* the steps of bootstrap.sh that ended so far, in the order they ended
StepsEnded == SelectSeq(sh.log, IsBootstrapStep)

\* the run logged this event at position i
Logged(i, kind, what) ==
    i \in DOMAIN sh.log /\ sh.log[i] = Event(kind, what)

Succeeded(what) == \E i \in DOMAIN sh.log : Logged(i, "ok", what)

Printed(text) == \E i \in DOMAIN sh.log : Logged(i, "echo", text)

SomethingFailed == \E i \in DOMAIN sh.log : sh.log[i].kind = "fail"

\* C17: a run of bootstrap.sh ends its steps in the order of the script, each
\* at most once; after a step or a command of an install script fails,
\* nothing more runs and the run exits with a code other than 0; the Argo CD
\* Application is applied only after install-argocd.sh and then
\* install-kong.sh ended well, each with its Helm release installed; and
\* "Bootstrap completed" is printed only when all six steps ended well.
C17_BootstrapInOrder ==
    sh.entry = "./scripts/bootstrap.sh"
        => /\ Len(StepsEnded) <= Len(BootstrapSteps)
           /\ \A i \in DOMAIN StepsEnded : StepsEnded[i].what = BootstrapSteps[i]
           /\ \A i \in DOMAIN sh.log, j \in DOMAIN sh.log :
                 (sh.log[i].kind = "fail" /\ i < j) => sh.log[j].kind = "fail"
           /\ (SomethingFailed /\ sh.stack = <<>>) => sh.exit \notin {-1, 0}
           /\ \A i \in DOMAIN sh.log :
                 Logged(i, "ok", "kubectl apply -f argocd/application.yaml")
                    => \E j \in 1..(i - 1), k \in 1..(i - 1) :
                          /\ j < k
                          /\ Logged(j, "ok", "./scripts/install-argocd.sh")
                          /\ Logged(k, "ok", "./scripts/install-kong.sh")
                          /\ \E h \in 1..(j - 1) :
                                Logged(h, "ok", "helm upgrade --install argocd")
                          /\ \E h \in (j + 1)..(k - 1) :
                                Logged(h, "ok", "helm upgrade --install kong")
           /\ Printed("Bootstrap completed")
                 => /\ ~SomethingFailed
                    /\ \A i \in DOMAIN BootstrapSteps : Succeeded(BootstrapSteps[i])
           /\ sh.exit = 0 => Printed("Bootstrap completed")

\* a run of bootstrap.sh in which Kong's Helm release failed to install
C17_Witness ==
    /\ sh.entry = "./scripts/bootstrap.sh"
    /\ sh.stack = <<>>
    /\ sh.exit = 1
    /\ Succeeded("./scripts/install-argocd.sh")
    /\ sh.log[Len(sh.log) - 1] = Event("fail", "helm upgrade --install kong")
    /\ sh.log[Len(sh.log)] = Event("fail", "./scripts/install-kong.sh")
    /\ ~Printed("Bootstrap completed")

\* a run of bootstrap.sh that went through
C17_Completed ==
    /\ sh.entry = "./scripts/bootstrap.sh"
    /\ sh.exit = 0
    /\ Printed("Bootstrap completed")

\* C18 as stated: whatever status a failure has, without a message it is
\* answered with that status and "Internal Server Error"; whatever message
\* it has, without a status it is answered with 500 and that message.
C18_DefaultsForAnyValue ==
    \A r \in Reqs :
        /\ (/\ Translated(r)
            /\ Present(reqs[r].err.status)
            /\ ~Present(reqs[r].err.message))
               => /\ Num(Answer(r).status) = reqs[r].err.status
                  /\ IsFailureEnvelope(Answer(r).body, Str("Internal Server Error"))
        /\ (/\ Translated(r)
            /\ ~Present(reqs[r].err.status)
            /\ Present(reqs[r].err.message))
               => /\ Answer(r).status = 500
                  /\ IsFailureEnvelope(Answer(r).body, reqs[r].err.message)

\* C18: the translator defaults status and message independently: a failure
\* with an HTTP status code (100..599) and no message was answered with that
\* status and the failure envelope around "Internal Server Error", and a
\* failure with a non-empty string as message and no status was answered
\* with 500 and the failure envelope around that message.
C18_IndependentDefaults ==
    \A r \in Reqs :
        /\ (/\ Translated(r)
            /\ HttpStatus(reqs[r].err.status)
            /\ ~Present(reqs[r].err.message))
               => /\ Len(reqs[r].out) = 1
                  /\ Answer(r).by = "errorHandler"
                  /\ Answer(r).status = reqs[r].err.status.n
                  /\ IsFailureEnvelope(Answer(r).body, Str("Internal Server Error"))
        /\ (/\ Translated(r)
            /\ ~Present(reqs[r].err.status)
            /\ NonEmptyString(reqs[r].err.message))
               => /\ Len(reqs[r].out) = 1
                  /\ Answer(r).by = "errorHandler"
                  /\ Answer(r).status = 500
                  /\ IsFailureEnvelope(Answer(r).body, reqs[r].err.message)

\* a failure with a status only was translated
C18_Witness ==
    \E r \in Reqs :
        /\ Translated(r)
        /\ reqs[r].err.status = Num(404)
        /\ ~Present(reqs[r].err.message)
        /\ Answer(r).status = 404
        /\ Answer(r).body.error = Str("Internal Server Error")

\* a failure with a message only was translated
C18_MessageOnly ==
    \E r \in Reqs :
        /\ Translated(r)
        /\ ~Present(reqs[r].err.status)
        /\ reqs[r].err.message = Str("Forbidden")
        /\ Answer(r).status = 500
        /\ Answer(r).body.error = Str("Forbidden")

StagesRan(r) == {reqs[r].ran[i] : i \in 1..Len(reqs[r].ran)}

\* C20: the JSON body parser is the first stage to run for every request;
\* when it raises a failure, neither the /balance router, the /health
\* handler nor the not-found middleware runs for that request, whatever its
\* path, and the one response is the error translator's rendering of the
\* parser's failure: its status and the failure envelope around its message.
C20_ParserBeforeDispatch ==
    \A r \in Reqs :
        /\ reqs[r].ran # <<>> => reqs[r].ran[1] = "json"
        /\ (reqs[r].body = "malformed" /\ reqs[r].ran # <<>>)
              => reqs[r].raisedBy = "json"
        /\ reqs[r].raisedBy = "json"
              => /\ reqs[r].err = JsonParseError
                 /\ StagesRan(r) \cap {"balance", "health", "notFound"} = {}
        /\ (reqs[r].raisedBy = "json" /\ Done(r))
              => /\ reqs[r].ran = <<"json", "errorHandler">>
                 /\ Len(reqs[r].out) = 1
                 /\ Answer(r).by = "errorHandler"
                 /\ Answer(r).status = JsonParseError.status.n
                 /\ IsFailureEnvelope(Answer(r).body, JsonParseError.message)

\* GET /balance and GET /health, each with a body the parser rejects
C20_Witness ==
    \E r1 \in Reqs, r2 \in Reqs :
        /\ reqs[r1].method = "GET"
        /\ reqs[r1].path = <<"balance">>
        /\ reqs[r1].body = "malformed"
        /\ Done(r1)
        /\ Answer(r1).status = 400
        /\ reqs[r2].method = "GET"
        /\ reqs[r2].path = <<"health">>
        /\ reqs[r2].body = "malformed"
        /\ Done(r2)
        /\ Answer(r2).status = 400

\* C21 as stated: a request to /health with a method other than GET is not
\* answered by the health handler and gets 404 with "Route not found".
C21_OnlyGetAnswered ==
    \A r \in Reqs :
        (/\ Done(r)
         /\ reqs[r].path = <<"health">>
         /\ reqs[r].method # "GET")
            => /\ Answer(r).by # "health"
               /\ NotFoundAnswer(r)

\* C21: a request to /health with a method other than GET and HEAD, whose
\* body the JSON parser does not reject, is not answered by the health
\* handler: the not-found middleware raises its failure and the response is
\* 404 with the failure envelope around "Route not found". A HEAD request
\* to /health is answered by the health handler, with 200 and no body.
C21_HealthGetAndHeadOnly ==
    \A r \in Reqs :
        /\ (/\ Done(r)
            /\ reqs[r].path = <<"health">>
            /\ reqs[r].method \notin {"GET", "HEAD"}
            /\ ParserAccepts(reqs[r]))
               => /\ "health" \notin StagesRan(r)
                  /\ Answer(r).by # "health"
                  /\ NotFoundAnswer(r)
        /\ (/\ Done(r)
            /\ reqs[r].path = <<"health">>
            /\ reqs[r].method = "HEAD"
            /\ ParserAccepts(reqs[r]))
               => /\ Len(reqs[r].out) = 1
                  /\ Answer(r).by = "health"
                  /\ Answer(r).status = 200
                  /\ Answer(r).body = NoBody

\* DELETE /health was answered
C21_Witness ==
    \E r \in Reqs :
        /\ Done(r)
        /\ reqs[r].path = <<"health">>
        /\ reqs[r].method = "DELETE"
        /\ ParserAccepts(reqs[r])
        /\ Answer(r).status = 404

\* HEAD /health was answered
C21_HeadAnswered ==
    \E r \in Reqs :
        /\ Done(r)
        /\ reqs[r].path = <<"health">>
        /\ reqs[r].method = "HEAD"
        /\ Answer(r).by = "health"

\* the release an install script installs, into the namespace of its name
Installs(path) ==
    IF path = "./scripts/install-argocd.sh" THEN "argocd" ELSE "kong"

\* the namespace and the release of the name exist in the cluster
InPlace(name, cluster) ==
    name \in cluster.namespaces /\ cluster.releases[name] > 0

\* this run is of an install script whose namespace and release existed
\* when it started
RunOverInstalled ==
    /\ sh.entry \in {"./scripts/install-argocd.sh", "./scripts/install-kong.sh"}
    /\ InPlace(Installs(sh.entry), sh.before)

Ended == sh.stack = <<>> /\ sh.exit # -1

\* the environment failed a command of this run
EnvironmentFailed ==
    \E i \in DOMAIN sh.log : sh.log[i].kind \in {"fail", "left-fail"}

\* C22: a run of install-argocd.sh or install-kong.sh that starts with its
\* namespace and its Helm release in place has no command that is refused
\* over what exists, ends with exit code 0 unless the environment fails one
\* of its commands, keeps the namespaces and the set of releases as they
\* were at every point, and ends, when with 0, with the same release at its
\* next revision.
C22_InstallIdempotent ==
    RunOverInstalled
        => /\ \A i \in DOMAIN sh.log : sh.log[i].kind # "refused"
           /\ (Ended /\ ~EnvironmentFailed) => sh.exit = 0
           /\ sh.cluster.namespaces = sh.before.namespaces
           /\ \A n \in Releases :
                 InPlace(n, sh.cluster) <=> InPlace(n, sh.before)
           /\ \A n \in Releases \ {Installs(sh.entry)} :
                 sh.cluster.releases[n] = sh.before.releases[n]
           /\ (Ended /\ sh.exit = 0)
                 => sh.cluster.releases[Installs(sh.entry)]
                       = sh.before.releases[Installs(sh.entry)] + 1

\* install-kong.sh ran a second time over what its first run installed
C22_Witness ==
    /\ sh.run = 2
    /\ sh.entry = "./scripts/install-kong.sh"
    /\ InPlace("kong", sh.before)
    /\ sh.before.releases["kong"] = 1
    /\ Ended
    /\ sh.exit = 0
    /\ sh.cluster.releases["kong"] = 2

\* install-argocd.sh ran a second time over what its first run installed
C22_ArgoAgain ==
    /\ sh.run = 2
    /\ sh.entry = "./scripts/install-argocd.sh"
    /\ InPlace("argocd", sh.before)
    /\ Ended
    /\ sh.exit = 0

=============================================================================
